---- MODULE Spec2Model ----
(***************************************************************************)
(* Model of py-docling-function: the content-addressed staged pipeline     *)
(* (ContentService.process, DoclingService.get_docling over the blob       *)
(* container), the /parse endpoint (main.parse_document) and the chunk     *)
(* filter (DoclingChunker.filter_chunks).                                  *)
(*                                                                         *)
(* Conventions: a timestamp is a positive integer read from a logical      *)
(* clock, 0 stands for Python's None; an absent blob has created = 0; an   *)
(* optional record is a sequence of length 0 or 1.                         *)
(***************************************************************************)
EXTENDS Integers, Sequences, FiniteSets, TLC

\* ---------------------------------------------------------------- bounds
\* Total number of process calls started in one behaviour.
MaxCalls == 3
\* Number of external writes/deletes on docling.json in one behaviour.
MaxTamper == 1

\* ------------------------------------------------------- pipeline inputs
Callers == {1, 2}
\* Byte sequences submitted by callers.
ByteInputs == {<<7>>, <<7, 9>>}
\* What callers submit: bytes with their declared content type, one a key of
\* SUPPORTED_MIME_TYPES, one not.
Submissions == {<<(<<7>>), "application/pdf">>, <<(<<7, 9>>), "application/zip">>}
FileName == "uploaded"

\* blake3(original_bytes).hexdigest(): injective on the inputs.
Blake3(b) == IF b = <<7>> THEN "h7" ELSE "h79"

Hashes == {Blake3(b) : b \in ByteInputs}

\* SUPPORTED_MIME_TYPES: MIME type -> file extension.
SUPPORTED_MIME_TYPES ==
    "application/pdf" :> ".pdf"
    @@ "application/vnd.openxmlformats-officedocument.wordprocessingml.document" :> ".docx"
    @@ "application/vnd.openxmlformats-officedocument.spreadsheetml.sheet" :> ".xlsx"
    @@ "application/vnd.openxmlformats-officedocument.presentationml.presentation" :> ".pptx"
    @@ "text/markdown" :> ".md"
    @@ "text/asciidoc" :> ".txt"
    @@ "text/plain" :> ".txt"
    @@ "text/html" :> ".html"
    @@ "application/xhtml+xml" :> ".xhtml"
    @@ "text/xml" :> ".xml"
    @@ "application/xml" :> ".xml"
    @@ "text/csv" :> ".csv"
    @@ "image/png" :> ".png"
    @@ "image/jpeg" :> ".jpg"
    @@ "image/tiff" :> ".tiff"
    @@ "image/bmp" :> ".bmp"
    @@ "message/rfc822" :> ".eml"

SupportedMime == DOMAIN SUPPORTED_MIME_TYPES

\* SUPPORTED_MIME_TYPES.get(content_type, ".bin")
OriginalExt(ct) == IF ct \in SupportedMime THEN SUPPORTED_MIME_TYPES[ct] ELSE ".bin"

\* ------------------------------------------------------------ blob store
BlobNames ==
    {"index.json", "original.pdf", "original.bin", "original.eml", "docling.json", "original.md"}
Keys == Hashes \X BlobNames
NoBlob == [created |-> 0, data |-> <<>>]

VARIABLES
    store,      \* the content-by-hash container: key -> blob
    pc,         \* per caller: position inside process / get_docling
    arg,        \* per caller: the arguments of the running process call
    model,      \* per caller: the local ContentModel (<<>> or <<record>>)
    gow,        \* per caller: get_docling's overwrite parameter
    attempt,    \* per caller: get_docling's attempt parameter
    docling,    \* per caller: the local DoclingDocument (<<>> when unset)
    work,       \* per caller: derivations and store writes done by the call,
                \* and "disturbed" once somebody else wrote under its hash
    calls,      \* number of calls started
    tampers,    \* number of external writes/deletes done
    lastRet,    \* per hash: what the last completed call returned, while
                \* nothing has written under the hash since (<<>> otherwise)
    snap,       \* per caller: lastRet of its hash when the call started,
                \* while nobody else has written under the hash since
    before,     \* per caller: the record at {hash}/index.json when the call
                \* started (<<>> when there was none)
    hpc,        \* /parse: position of the handler
    req,        \* /parse: the request being handled
    resp,       \* /parse: the response sent
    chunks,     \* filter_chunks: the input sequence
    cpc,        \* filter_chunks: position
    order,      \* filter_chunks: the order in which the set is iterated
    out,        \* filter_chunks: the list returned
    target,     \* docling_add_doc: the nodes of the target document
    source,     \* docling_add_doc: the nodes of the source document
    heap,       \* docling_add_doc: the payload objects the nodes point to
    mpc,        \* docling_add_doc: position
    todo,       \* docling_add_doc: top-level source nodes still to merge
    merged,     \* docling_add_doc: the target as it was when the merge returned
    msg,        \* _convert_email: the parts iter_attachments yields
    epc,        \* _convert_email: position
    eidx,       \* _convert_email: number of parts iterated so far
    atts,       \* _convert_email: result.attachments
    cvpc,       \* convert: position
    cvarg,      \* convert: the arguments of the running call
    cvres       \* convert: what the last call returned or raised

pipeVars == <<store, pc, arg, model, gow, attempt, docling, work, calls,
              tampers, lastRet, snap, before>>

httpVars == <<hpc, req, resp>>

chunkVars == <<chunks, cpc, order, out>>

mergeVars == <<target, source, heap, mpc, todo, merged>>

emailVars == <<msg, epc, eidx, atts>>

convVars == <<cvpc, cvarg, cvres>>

vars == <<pipeVars, httpVars, chunkVars, mergeVars, emailVars, convVars>>

\* What the pipeline leaves alone.
offPipe == <<httpVars, chunkVars, mergeVars, emailVars, convVars>>

\* What the /parse handler leaves alone.
offHttp == <<pipeVars, chunkVars, mergeVars, emailVars>>

\* What filter_chunks leaves alone.
offChunk == <<pipeVars, httpVars, mergeVars, emailVars, convVars>>

\* What docling_add_doc leaves alone.
offMerge == <<pipeVars, httpVars, chunkVars, emailVars, convVars>>

\* What _convert_email leaves alone.
offEmail == <<pipeVars, httpVars, chunkVars, mergeVars, convVars>>

\* datetime.now(tz=timezone.utc) and the store's clock: the logical clock
\* ticks once for every call submitted, so stamps taken by different calls
\* that do not overlap differ, and time never runs backwards.
Now == calls

NoArg == [bytes |-> <<>>, content_type |-> "", overwrite |-> FALSE]

\* AzureBlobContainer.get_bytes: the data, <<>> standing for None.
GetBytes(st, key) == st[key].data

BlobExists(st, key) == st[key].created # 0

\* AzureBlobContainer.get_blob_date: creation_time, 0 standing for None.
GetBlobDate(st, key) == st[key].created

\* AzureBlobContainer.set_bytes: upload_blob(overwrite=True).  An upload
\* over an existing blob replaces the data and keeps its creation time.
SetBytes(st, key, data, t) ==
    [st EXCEPT ![key] = [created |-> IF @.created = 0 THEN t ELSE @.created,
                         data |-> data]]

\* ContentModel(hash, content_type, filename, size, created_at): the other
\* fields take their defaults.
NewModel(b, ct, t) ==
    [hash |-> Blake3(b), content_type |-> ct, filename |-> FileName,
     size |-> Len(b), created_at |-> t, docling_date |-> 0,
     markdown_date |-> 0, attachment_hashes |-> <<>>, chunk_date |-> 0]

\* ContentService.get_status: the record stored at {hash}/index.json.
GetStatus(st, h) == GetBytes(st, <<h, "index.json">>)

\* ContentService.save_status: write the record to {model.hash}/index.json.
SaveStatus(st, m, t) == SetBytes(st, <<m.hash, "index.json">>, <<m>>, t)

\* DoclingService._process: the parser's result, a function of the bytes and
\* the record's content type.
Parse(b, ct) == <<"DoclingDocument", Blake3(b), ct>>

\* What an external writer leaves under docling.json: JSON that is no
\* DoclingDocument.
Garbage == <<"NotADoclingDocument">>

\* DoclingDocument.model_validate_json succeeds.
Validates(data) == Len(data) > 0 /\ data[1] = "DoclingDocument"

\* docling.export_to_markdown()
ExportToMarkdown(d) == <<"markdown", d[2], d[3]>>

\* DocumentConverter.convert may raise on any input.
ParseOutcomes == {"ok", "raise"}

HashOf(c) == Blake3(arg[c].bytes)
Active(c) == pc[c] # "idle"
Running(c) == pc[c] \notin {"idle", "done", "error"}

\* Bookkeeping of a store write by caller c under its hash: nothing a
\* completed call returned describes the store any more.
Wrote(c, ops) ==
    /\ work' = [d \in Callers |->
                  IF d = c THEN work[d] \cup ops
                  ELSE IF Active(d) /\ HashOf(d) = HashOf(c) THEN work[d] \cup {"disturbed"}
                  ELSE work[d]]
    /\ lastRet' = [lastRet EXCEPT ![HashOf(c)] = <<>>]
    /\ snap' = [d \in Callers |->
                  IF d # c /\ Active(d) /\ HashOf(d) = HashOf(c) THEN <<>> ELSE snap[d]]

InitPipe ==
    /\ store = [k \in Keys |-> NoBlob]
    /\ pc = [c \in Callers |-> "idle"]
    /\ arg = [c \in Callers |-> NoArg]
    /\ model = [c \in Callers |-> <<>>]
    /\ gow = [c \in Callers |-> FALSE]
    /\ attempt = [c \in Callers |-> 0]
    /\ docling = [c \in Callers |-> <<>>]
    /\ work = [c \in Callers |-> {}]
    /\ calls = 0
    /\ tampers = 0
    /\ lastRet = [h \in Hashes |-> <<>>]
    /\ snap = [c \in Callers |-> <<>>]
    /\ before = [c \in Callers |-> <<>>]

\* The endpoint serves no request.
HttpOff == hpc = "off" /\ req = <<>> /\ resp = <<>>

\* No chunk list is being filtered.
ChunkOff == chunks = <<>> /\ cpc = "off" /\ order = <<>> /\ out = <<>>

MergeOff ==
    /\ target = <<>> /\ source = <<>> /\ heap = <<>>
    /\ mpc = "off" /\ todo = <<>> /\ merged = <<>>

EmailOff == msg = <<>> /\ epc = "off" /\ eidx = 0 /\ atts = <<>>

ConvOff == cvpc = "idle" /\ cvarg = <<>> /\ cvres = <<>>

Init == InitPipe /\ HttpOff /\ ChunkOff /\ MergeOff /\ EmailOff /\ ConvOff

\* A caller enters process(original_bytes, content_type, filename, overwrite).
\* Callers are interchangeable: a call takes the lowest free slot.
Start(c, b, ct, ow) ==
    /\ pc[c] = "idle"
    /\ \A d \in Callers : d < c => Active(d)
    /\ calls < MaxCalls
    /\ calls' = calls + 1
    /\ pc' = [pc EXCEPT ![c] = "get_status"]
    /\ arg' = [arg EXCEPT ![c] = [bytes |-> b, content_type |-> ct, overwrite |-> ow]]
    /\ work' = [work EXCEPT ![c] = {}]
    /\ snap' = [snap EXCEPT ![c] =
                  IF lastRet[Blake3(b)] # <<>> /\ lastRet[Blake3(b)][2] = ct
                  THEN lastRet[Blake3(b)] ELSE <<>>]
    /\ before' = [before EXCEPT ![c] = GetStatus(store, Blake3(b))]
    /\ UNCHANGED <<offPipe, store, model, gow, attempt, docling, tampers, lastRet>>

\* A process that would never reuse the stored record.
NeedsFreshAlways(m, overwrite) == TRUE

\* process, lines 79-87: the condition under which a fresh record is made.
NeedsFresh(m, overwrite) == m = <<>> \/ overwrite

\* process, lines 78-88: get_status, then a fresh ContentModel when there is
\* no record or overwrite is set.
LoadStatus(c) ==
    /\ pc[c] = "get_status"
    /\ LET m == GetStatus(store, HashOf(c)) IN
       IF NeedsFresh(m, arg[c].overwrite)
       THEN /\ model' = [model EXCEPT ![c] =
                           <<NewModel(arg[c].bytes, arg[c].content_type, Now)>>]
                    /\ pc' = [pc EXCEPT ![c] = "orig_date"]
       ELSE /\ model' = [model EXCEPT ![c] = m]
            /\ pc' = [pc EXCEPT ![c] = "doc_date"]
    /\ gow' = [gow EXCEPT ![c] = arg[c].overwrite]
    /\ attempt' = [attempt EXCEPT ![c] = 0]
    /\ UNCHANGED <<offPipe, before, store, arg, docling, work, calls, tampers, lastRet, snap>>

OriginalKey(c) == <<HashOf(c), "original" \o OriginalExt(model[c][1].content_type)>>

\* _process_original, lines 41-44 and 48-49: read the original's date.
OriginalDate(c) ==
    /\ pc[c] = "orig_date"
    /\ LET d == GetBlobDate(store, OriginalKey(c)) IN
       IF d = 0 \/ arg[c].overwrite
       THEN /\ pc' = [pc EXCEPT ![c] = "orig_set"]
            /\ model' = model
       ELSE /\ pc' = [pc EXCEPT ![c] = "doc_date"]
            /\ model' = [model EXCEPT ![c][1].created_at = d]
    /\ UNCHANGED <<offPipe, before, store, arg, gow, attempt, docling, work, calls, tampers,
                   lastRet, snap>>

\* _process_original, lines 45-46: store the original, stamp created_at.
OriginalSet(c) ==
    /\ pc[c] = "orig_set"
    /\ store' = SetBytes(store, OriginalKey(c), arg[c].bytes, Now)
    /\ model' = [model EXCEPT ![c][1].created_at = Now]
    /\ pc' = [pc EXCEPT ![c] = "orig_save"]
    /\ Wrote(c, {"store_original"})
    /\ UNCHANGED <<offPipe, before, arg, gow, attempt, docling, calls, tampers>>

\* _process_original, line 47: save_status(model).
OriginalSave(c) ==
    /\ pc[c] = "orig_save"
    /\ store' = SaveStatus(store, model[c][1], Now)
    /\ pc' = [pc EXCEPT ![c] = "doc_date"]
    /\ Wrote(c, {"save_status"})
    /\ UNCHANGED <<offPipe, before, arg, model, gow, attempt, docling, calls, tampers>>

\* A key for the structured document that every hash would share.
DoclingKeyShared(c) == <<"h7", "docling.json">>

\* get_docling, line 120: blob_name = f"{model.hash}/docling.json"
DoclingKey(c) == <<HashOf(c), "docling.json">>

\* A key for the markdown that every hash would share.
MarkdownKeyShared(c) == <<"h7", "original.md">>

\* _check_markdown, line 55: markdown_path = f"{model.hash}/original.md"
MarkdownKey(c) == <<HashOf(c), "original.md">>

\* process, line 90: after get_docling returns, the markdown stage runs only
\* when the local record has no markdown_date.
AfterDocling(m) == IF m.markdown_date = 0 THEN "md_date" ELSE "done"

\* get_docling, lines 120-122 and 125: read docling.json's date.
DoclingDate(c) ==
    /\ pc[c] = "doc_date"
    /\ LET d == GetBlobDate(store, DoclingKey(c)) IN
       pc' = [pc EXCEPT ![c] = IF d = 0 \/ gow[c] THEN "doc_derive" ELSE "doc_get"]
    /\ UNCHANGED <<offPipe, before, store, arg, model, gow, attempt, docling, work, calls, tampers,
                   lastRet, snap>>

\* get_docling, lines 123-124: parse the bytes, store the document.  A
\* parser error propagates out of process.
DoclingDerive(c, outcome) ==
    /\ pc[c] = "doc_derive"
    /\ IF outcome = "raise"
       THEN /\ pc' = [pc EXCEPT ![c] = "error"]
            /\ work' = [work EXCEPT ![c] = @ \cup {"parse"}]
            /\ UNCHANGED <<store, docling, lastRet, snap>>
       ELSE LET d == Parse(arg[c].bytes, model[c][1].content_type) IN
            /\ docling' = [docling EXCEPT ![c] = d]
            /\ store' = SetBytes(store, DoclingKey(c), d, Now)
                    /\ pc' = [pc EXCEPT ![c] = AfterDocling(model[c][1])]
            /\ Wrote(c, {"parse", "store_docling"})
    /\ UNCHANGED <<offPipe, before, arg, model, gow, attempt, calls, tampers>>

\* A retry that would pass overwrite on as it got it.
RetryKeepsOverwrite == FALSE

\* get_docling, lines 133 and 143-145: the overwrite argument of the retry,
\* get_docling(model, original_bytes, True, attempt + 1).
RetryOverwrite == TRUE

\* get_docling, lines 128-133 and 140-145: what a failed cache read does.

CacheFailure(c) ==
    IF attempt[c] > 0
    THEN /\ pc' = [pc EXCEPT ![c] = "error"]
         /\ UNCHANGED <<gow, attempt>>
    ELSE /\ pc' = [pc EXCEPT ![c] = "doc_date"]
         /\ gow' = [gow EXCEPT ![c] = RetryOverwrite]
         /\ attempt' = [attempt EXCEPT ![c] = @ + 1]

\* get_docling, lines 126-145: read and deserialize the cached document.
DoclingGet(c) ==
    /\ pc[c] = "doc_get"
    /\ LET bytes == GetBytes(store, DoclingKey(c)) IN
       IF bytes # <<>> /\ Validates(bytes)
       THEN /\ docling' = [docling EXCEPT ![c] = bytes]
            /\ pc' = [pc EXCEPT ![c] = AfterDocling(model[c][1])]
            /\ UNCHANGED <<gow, attempt, work>>
       ELSE /\ CacheFailure(c)
            /\ docling' = docling
            /\ work' = [work EXCEPT ![c] = IF attempt[c] > 0 THEN @ ELSE @ \cup {"retry"}]
    /\ UNCHANGED <<offPipe, before, store, arg, model, calls, tampers, lastRet, snap>>

\* _check_markdown, lines 54-56: read original.md's date.
MarkdownDate(c) ==
    /\ pc[c] = "md_date"
    /\ LET d == GetBlobDate(store, MarkdownKey(c)) IN
       pc' = [pc EXCEPT ![c] = IF d = 0 \/ arg[c].overwrite THEN "md_set" ELSE "md_get"]
    /\ UNCHANGED <<offPipe, before, store, arg, model, gow, attempt, docling, work, calls, tampers,
                   lastRet, snap>>

\* _check_markdown, lines 57-59: export, store original.md, stamp the marker.
MarkdownSet(c) ==
    /\ pc[c] = "md_set"
    /\ store' = SetBytes(store, MarkdownKey(c), ExportToMarkdown(docling[c]), Now)
    /\ model' = [model EXCEPT ![c][1].markdown_date = Now]
    /\ pc' = [pc EXCEPT ![c] = "md_save"]
    /\ Wrote(c, {"export", "store_markdown"})
    /\ UNCHANGED <<offPipe, before, arg, gow, attempt, docling, calls, tampers>>

\* _check_markdown, line 60: save_status(model).
MarkdownSave(c) ==
    /\ pc[c] = "md_save"
    /\ store' = SaveStatus(store, model[c][1], Now)
    /\ pc' = [pc EXCEPT ![c] = "done"]
    /\ Wrote(c, {"save_status"})
    /\ UNCHANGED <<offPipe, before, arg, model, gow, attempt, docling, calls, tampers>>

\* _check_markdown, lines 62-64: load the stored markdown; the assert fails
\* when the blob has gone.
MarkdownGet(c) ==
    /\ pc[c] = "md_get"
    /\ pc' = [pc EXCEPT ![c] =
                IF GetBytes(store, MarkdownKey(c)) = <<>> THEN "error" ELSE "done"]
    /\ UNCHANGED <<offPipe, before, store, arg, model, gow, attempt, docling, work, calls, tampers,
                   lastRet, snap>>

Reset(c) ==
    /\ pc' = [pc EXCEPT ![c] = "idle"]
    /\ arg' = [arg EXCEPT ![c] = NoArg]
    /\ model' = [model EXCEPT ![c] = <<>>]
    /\ gow' = [gow EXCEPT ![c] = FALSE]
    /\ attempt' = [attempt EXCEPT ![c] = 0]
    /\ docling' = [docling EXCEPT ![c] = <<>>]
    /\ work' = [work EXCEPT ![c] = {}]
    /\ snap' = [snap EXCEPT ![c] = <<>>]
    /\ before' = [before EXCEPT ![c] = <<>>]

\* process, line 92: return model.
Return(c) ==
    /\ pc[c] = "done"
    /\ Reset(c)
    /\ lastRet' = [lastRet EXCEPT ![HashOf(c)] =
                     IF \/ "disturbed" \in work[c]
                        \/ \E d \in Callers \ {c} : Running(d) /\ HashOf(d) = HashOf(c)
                     THEN <<>> ELSE <<model[c][1], arg[c].content_type>>]
    /\ UNCHANGED <<offPipe, store, calls, tampers>>

\* An exception leaves process.
Raise(c) ==
    /\ pc[c] = "error"
    /\ Reset(c)
    /\ UNCHANGED <<offPipe, store, calls, tampers, lastRet>>

\* The call is cancelled, or its process dies, between two store operations.
Crash(c) ==
    /\ Running(c)
    /\ Reset(c)
    /\ UNCHANGED <<offPipe, store, calls, tampers, lastRet>>

Tampered(h) ==
    /\ tampers < MaxTamper
    /\ tampers' = tampers + 1
    /\ lastRet' = [lastRet EXCEPT ![h] = <<>>]
    /\ snap' = [d \in Callers |-> IF Active(d) /\ HashOf(d) = h THEN <<>> ELSE snap[d]]
    /\ work' = [d \in Callers |->
                  IF Active(d) /\ HashOf(d) = h THEN work[d] \cup {"disturbed"} ELSE work[d]]
    /\ UNCHANGED <<offPipe, before, pc, arg, model, gow, attempt, docling, calls>>

\* Another writer of the container puts bytes that are no DoclingDocument
\* under {hash}/docling.json.
ExternalWrite(h) ==
    /\ BlobExists(store, <<h, "docling.json">>)
    /\ store' = SetBytes(store, <<h, "docling.json">>, Garbage, Now)
    /\ Tampered(h)

\* AzureBlobContainer.delete, called from outside the pipeline.
ExternalDelete(h) ==
    /\ BlobExists(store, <<h, "docling.json">>)
    /\ store' = [store EXCEPT ![<<h, "docling.json">>] = NoBlob]
    /\ Tampered(h)

\* One step of caller c inside process.
Step(c) ==
    \/ LoadStatus(c)
    \/ OriginalDate(c)
    \/ OriginalSet(c)
    \/ OriginalSave(c)
    \/ DoclingDate(c)
    \/ \E o \in ParseOutcomes : DoclingDerive(c, o)
    \/ DoclingGet(c)
    \/ MarkdownDate(c)
    \/ MarkdownSet(c)
    \/ MarkdownSave(c)
    \/ MarkdownGet(c)
    \/ Return(c)
    \/ Raise(c)

\* Calls arrive one after the other; a call may be interrupted, and other
\* users of the container may write or delete docling.json.
Next ==
    \/ \E s \in Submissions, ow \in BOOLEAN : Start(1, s[1], s[2], ow)
    \/ Step(1)
    \/ Crash(1)
    \/ \E h \in Hashes : ExternalWrite(h)
    \/ \E h \in Hashes : ExternalDelete(h)

Spec == Init /\ [][Next]_vars

\* Two calls run concurrently, each to its end, with nobody else touching
\* the container: every interleaving of their store operations.
NextRace ==
    \/ \E c \in Callers, s \in Submissions, ow \in BOOLEAN :
          calls < Cardinality(Callers) /\ Start(c, s[1], s[2], ow)
    \/ \E c \in Callers : Step(c)

SpecRace == Init /\ [][NextRace]_vars

\* A composite message: the bytes <<7, 9>> submitted as message/rfc822.
MailSubmission == <<(<<7, 9>>), "message/rfc822">>

\* _process_email_multipart, lines 64-77: the bytes of the parts of the
\* message that are converted, in the order msg.walk() finds them. The
\* message <<7, 9>> has one attachment, the bytes <<7>>.
MailParts(b) == IF b = <<7, 9>> THEN << <<7>> >> ELSE <<>>

\* Calls that submit the composite message, one after the other.
NextMail ==
    \/ \E ow \in BOOLEAN : Start(1, MailSubmission[1], MailSubmission[2], ow)
    \/ Step(1)

SpecMail == Init /\ [][NextMail]_vars

\* ------------------------------------------------------ the /parse endpoint
\* API_KEY = os.getenv("DOC_API_KEY", "my-secret-key")
API_KEY == "my-secret-key"

\* The requests a client may send: the x-api-key header, the body, the
\* Content-Type header ("" when absent), the filename header ("" when absent).
Requests ==
    [key : {API_KEY, "wrong-key"},
     body : {<<>>, <<7>>, <<7, 9>>},
     ctype : {"", "application/pdf", "APPLICATION/PDF", "application/zip"},
     filename : {"", "a.pdf"}]

\* content_type.lower() on the content types of Requests.
LowerMime(ct) == IF ct = "APPLICATION/PDF" THEN "application/pdf" ELSE ct

\* str(e) of HTTPException(status_code, detail): "<status_code>: <detail>".
HTTPException(status, detail) == [kind |-> "HTTPException", status |-> status, text |-> detail]

ValueError(text) == [kind |-> "ValueError", status |-> 0, text |-> text]

\* parse_document, lines 55-56: except Exception as e answers
\* JSONResponse({"error": str(e)}, status_code=500), whatever was raised
\* inside the try block.
ExceptException(e) == [status |-> 500, error |-> <<e.kind, e.text>>]

\* An HTTPException raised outside the try block: the framework answers
\* with its status code and detail.
FrameworkAnswer(e) == [status |-> e.status, error |-> <<e.kind, e.text>>]

\* A request arrives at POST /parse.
Receive(r) ==
    /\ hpc \in {"off", "sent"}
    /\ req' = <<r>>
    /\ resp' = <<>>
    /\ hpc' = "auth"
    /\ UNCHANGED <<offHttp, convVars>>

\* parse_document, lines 38-39: the API key check, outside the try block.
CheckKey ==
    /\ hpc = "auth"
    /\ IF req[1].key # API_KEY
       THEN /\ resp' = <<FrameworkAnswer(HTTPException(403, "Invalid API key"))>>
            /\ hpc' = "sent"
       ELSE /\ resp' = resp
            /\ hpc' = "body"
    /\ UNCHANGED <<req, offHttp, convVars>>

\* parse_document, lines 42-44: the body, inside the try block.
ReadBody ==
    /\ hpc = "body"
    /\ IF req[1].body = <<>>
       THEN /\ resp' = <<ExceptException(HTTPException(400, "No content provided"))>>
            /\ hpc' = "sent"
       ELSE /\ resp' = resp
            /\ hpc' = "ctype"
    /\ UNCHANGED <<req, offHttp, convVars>>

\* parse_document, lines 45-50: the Content-Type header, inside the try block.
ReadContentType ==
    /\ hpc = "ctype"
    /\ IF req[1].ctype = ""
       THEN /\ resp' = <<ExceptException(HTTPException(400, "No content type provided"))>>
            /\ hpc' = "sent"
       ELSE /\ resp' = resp
            /\ hpc' = "convert"
    /\ UNCHANGED <<req, offHttp, convVars>>

\* parse_document, lines 51-54, and docling_conversion.DoclingConverter.convert:
\* the MIME check, the conversion (which may raise), the 200 answer.
Convert(outcome) ==
    /\ hpc = "convert"
    /\ LET ct == LowerMime(req[1].ctype)
           filename == IF req[1].filename = "" THEN "uploaded" ELSE req[1].filename
       IN resp' =
            IF ct \notin SupportedMime
            THEN <<ExceptException(ValueError("Unsupported MIME type"))>>
            ELSE IF outcome = "raise"
            THEN <<ExceptException(ValueError("conversion failed"))>>
            ELSE <<[status |-> 200, error |-> <<>>, content_type |-> ct, filename |-> filename]>>
    /\ hpc' = "sent"
    /\ UNCHANGED <<req, offHttp, convVars>>

NextHttp ==
    \/ \E r \in Requests : Receive(r)
    \/ CheckKey
    \/ ReadBody
    \/ ReadContentType
    \/ \E o \in ParseOutcomes : Convert(o)

SpecHttp == Init /\ [][NextHttp]_vars

\* The request is one the endpoint is to reject as the client's error.
Invalid(r) ==
    r.body = <<>> \/ r.ctype = "" \/ LowerMime(r.ctype) \notin SupportedMime

\* C8: a request with a missing body, a missing Content-Type or an
\* unsupported MIME type is answered with a 4xx status; every other failure
\* with the generic failure status and the error's text.
C8_TransportErrorTaxonomy ==
    (hpc = "sent" /\ req[1].key = API_KEY) =>
        IF Invalid(req[1])
        THEN resp[1].status \in 400..499
        ELSE resp[1].status \in {200, 500}

\* ------------------------------------------------------------ chunk filter
\* A text is a sequence of one-character strings.

\* Longest chunk list filtered.
MaxChunks == 5

\* The chunk texts the lists are made of: the chunks of one document.
ChunkSources ==
    { { <<"A">>,
        <<"B">>,
        <<"C">>,
        <<"P", "a", "g", "e", " ", "3">> },
      { <<"a", "b">>,
        <<"a", "a", "b", "b">>,
        <<"b">>,
        <<"a", "a", "b">> },
      { <<"C", "O", "N", "F", "I", "D", "E", "N", "T", "I", "A", "L">>,
        <<"R", "e", "p", "o", "r", "t", " ", "C", "O", "N", "F", "I", "D", "E", "N", "T", "I", "A", "L", " ", "b", "o", "d", "y">>,
        <<"P", "a", "g", "e", " ", "3">>,
        <<"R", "e", "p", "o", "r", "t", " ", "P", "a", "g", "e", " ", "3", " ", "b", "o", "d", "y">> } }

ChunkTexts == UNION ChunkSources

UpperCase == <<"A", "B", "C", "D", "E", "F", "G", "H", "I", "J", "K", "L", "M", "N", "O", "P", "Q", "R",
    "S", "T", "U", "V", "W", "X", "Y", "Z">>
LowerCase == <<"a", "b", "c", "d", "e", "f", "g", "h", "i", "j", "k", "l", "m", "n", "o", "p", "q", "r",
    "s", "t", "u", "v", "w", "x", "y", "z">>
Digits == {"0", "1", "2", "3", "4", "5", "6", "7", "8", "9"}
WhiteSpace == {" ", "\t", "\n", "\r", "\f"}

Range(t) == {t[i] : i \in DOMAIN t}

\* str.lower(), character by character.
LowerChar(ch) ==
    IF ch \in Range(UpperCase)
    THEN LowerCase[CHOOSE i \in DOMAIN UpperCase : UpperCase[i] = ch]
    ELSE ch

Lower(t) == [i \in DOMAIN t |-> LowerChar(t[i])]

\* str.strip(): leading and trailing whitespace removed.
Strip(t) ==
    LET ink == {i \in DOMAIN t : t[i] \notin WhiteSpace} IN
    IF ink = {} THEN <<>>
    ELSE SubSeq(t, CHOOSE i \in ink : \A j \in ink : i <= j,
                   CHOOSE i \in ink : \A j \in ink : j <= i)

\* pat occurs in t at position i.
StartsWith(t, i, pat) ==
    i >= 1 /\ i + Len(pat) - 1 <= Len(t) /\ SubSeq(t, i, i + Len(pat) - 1) = pat

\* Python's `pat in t`.
Contains(t, pat) == \E i \in 1..(Len(t) + 1) : StartsWith(t, i, pat)

\* regex \w, \d and friends at position i (false outside the text).
IsWord(t, i) ==
    i \in DOMAIN t /\ t[i] \in Range(LowerCase) \cup Range(UpperCase) \cup Digits \cup {"_"}
IsDigit(t, i) == i \in DOMAIN t /\ t[i] \in Digits
IsAddr(t, i) == IsWord(t, i) \/ (i \in DOMAIN t /\ t[i] \in {".", "-"})

\* regex \b before position i.
WordBoundary(t, i) == IsWord(t, i - 1) # IsWord(t, i)

AllDigits(t, i, j) == i <= j /\ \A k \in i..j : IsDigit(t, k)
AllWord(t, i, j) == i <= j /\ \A k \in i..j : IsWord(t, k)
AllAddr(t, i, j) == i <= j /\ \A k \in i..j : IsAddr(t, k)

\* re.search(r"\bpage \d+\b", text)
PagePattern(t) ==
    LET page == <<"p", "a", "g", "e", " ">> IN
    \E i \in DOMAIN t :
        /\ StartsWith(t, i, page)
        /\ WordBoundary(t, i)
        /\ \E j \in (i + 5)..Len(t) : AllDigits(t, i + 5, j) /\ WordBoundary(t, j + 1)

\* re.search(r"\bphone\b|\bfax\b", text)
PhoneFaxPattern(t) ==
    \E w \in {<<"p", "h", "o", "n", "e">>, <<"f", "a", "x">>} :
        \E i \in DOMAIN t :
            StartsWith(t, i, w) /\ WordBoundary(t, i) /\ WordBoundary(t, i + Len(w))

\* re.search(r"\+\d{1,3}[\s\-]?\d{3}", text)
PhoneNumberPattern(t) ==
    \E i \in DOMAIN t :
        /\ t[i] = "+"
        /\ \E k \in 1..3 :
             /\ AllDigits(t, i + 1, i + k)
             /\ \/ AllDigits(t, i + k + 1, i + k + 3)
                \/ /\ i + k + 1 \in DOMAIN t
                   /\ t[i + k + 1] \in WhiteSpace \cup {"-"}
                   /\ AllDigits(t, i + k + 2, i + k + 4)

\* re.search(r"\b[\w\.-]+@[\w\.-]+\.\w+\b", text)
EmailPattern(t) ==
    \E a \in DOMAIN t :
        /\ t[a] = "@"
        /\ \E s \in 1..(a - 1) : AllAddr(t, s, a - 1) /\ WordBoundary(t, s)
        /\ \E d \in (a + 2)..Len(t) :
             /\ t[d] = "."
             /\ AllAddr(t, a + 1, d - 1)
             /\ \E e \in (d + 1)..Len(t) : AllWord(t, d + 1, e) /\ WordBoundary(t, e + 1)

\* re.search(r"https?://[^\s]+", text)
UrlPattern(t) ==
    \E h \in {<<"h", "t", "t", "p", ":", "/", "/">>, <<"h", "t", "t", "p", "s", ":", "/", "/">>} :
        \E i \in DOMAIN t :
            /\ StartsWith(t, i, h)
            /\ i + Len(h) \in DOMAIN t
            /\ t[i + Len(h)] \notin WhiteSpace

\* is_good_chunk: boilerplate_keywords.
BoilerplateKeywords ==
    { <<"n", "o", " ", "p", "a", "r", "t", " ", "m", "a", "y", " ", "b", "e", " ", "c", "o",
        "p", "i", "e", "d">>,
      <<"i", "s", " ", "p", "r", "o", "v", "i", "d", "e", "d", " ", "o", "n", "l", "y", " ",
        "t", "o", " ", "i", "n", "v", "e", "s", "t", "m", "e", "n", "t", " ", "p", "r", "o",
        "f", "e", "s", "s", "i", "o", "n", "a", "l", "s">>,
      <<"t", "h", "i", "s", " ", "d", "o", "c", "u", "m", "e", "n", "t", " ", "i", "s", " ",
        "n", "o", "t", " ", "a", " ", "r", "e", "s", "e", "a", "r", "c", "h", " ", "r", "e",
        "p", "o", "r", "t", " ", "o", "r", " ", "r", "e", "s", "e", "a", "r", "c", "h", " ",
        "m", "a", "t", "e", "r", "i", "a", "l">>,
      <<"t", "h", "i", "s", " ", "m", "e", "s", "s", "a", "g", "e", " ", "i", "s", " ", "f",
        "o", "r", " ", "i", "n", "f", "o", "r", "m", "a", "t", "i", "o", "n", " ", "p", "u",
        "r", "p", "o", "s", "e", "s", " ", "o", "n", "l", "y">>,
      <<"t", "h", "i", "s", " ", "d", "o", "c", "u", "m", "e", "n", "t", " ", "i", "s", " ",
        "b", "e", "i", "n", "g", " ", "p", "r", "o", "v", "i", "d", "e", "d", " ", "f", "o",
        "r", " ", "t", "h", "e", " ", "e", "x", "c", "l", "u", "s", "i", "v", "e", " ", "u",
        "s", "e", " ", "o", "f">> }

\* is_good_chunk: the keywords are looked up in the chunk as given, the
\* patterns in the stripped, lower-cased text.
IsGoodChunk(chunk) ==
    LET text == Lower(Strip(chunk))
        is_boilerplate == \E kw \in BoilerplateKeywords : Contains(chunk, kw)
        has_metadata ==
            \/ PagePattern(text)
            \/ PhoneFaxPattern(text)
            \/ PhoneNumberPattern(text)
            \/ EmailPattern(text)
            \/ UrlPattern(text)
    IN ~is_boilerplate /\ ~has_metadata

\* str.replace(pat, ""): the occurrences found scanning from the left, each
\* search resuming after the occurrence removed.
RECURSIVE RemoveFrom(_, _, _)
RemoveFrom(t, pat, i) ==
    IF i > Len(t) THEN <<>>
    ELSE IF StartsWith(t, i, pat) THEN RemoveFrom(t, pat, i + Len(pat))
    ELSE <<t[i]>> \o RemoveFrom(t, pat, i + 1)

Remove(t, pat) == IF pat = <<>> THEN t ELSE RemoveFrom(t, pat, 1)

\* clean_chunk: for rc in repeated_chunks: text = text.replace(rc, ""), the
\* set being iterated in the order ord.
RECURSIVE clean_chunk(_, _)
clean_chunk(text, ord) ==
    IF ord = <<>> THEN text ELSE clean_chunk(Remove(text, Head(ord)), Tail(ord))

\* Counter(chunks)[c]
chunk_counts(cs, c) == Cardinality({i \in DOMAIN cs : cs[i] = c})

\* {c for c, count in chunk_counts.items() if count > 1}
repeated_chunks(cs) == {c \in Range(cs) : chunk_counts(cs, c) > 1}

\* The orders in which a Python set of strings may be iterated: any.
IterationOrders(S) ==
    {o \in [1..Cardinality(S) -> S] : \A i, j \in DOMAIN o : o[i] = o[j] => i = j}

\* A filter that would keep the repeated chunks too.
KeepsAny(cs, chunk) == IsGoodChunk(chunk)

\* filter_chunks, lines 46-47: the condition of the comprehension.
Keeps(cs, chunk) == chunk_counts(cs, chunk) = 1 /\ IsGoodChunk(chunk)

\* filter_chunks, lines 44-48: the list comprehension, from position i on.
RECURSIVE Comprehension(_, _, _)
Comprehension(cs, ord, i) ==
    IF i > Len(cs) THEN <<>>
    ELSE IF Keeps(cs, cs[i])
    THEN <<clean_chunk(cs[i], ord)>> \o Comprehension(cs, ord, i + 1)
    ELSE Comprehension(cs, ord, i + 1)

\* The chunk lists handed to filter_chunks.
ChunkLists == UNION {[1..n -> P] : n \in 0..MaxChunks, P \in ChunkSources}

InitChunk ==
    /\ InitPipe
    /\ HttpOff
    /\ MergeOff
    /\ EmailOff
    /\ ConvOff
    /\ chunks \in ChunkLists
    /\ cpc = "count"
    /\ order = <<>>
    /\ out = <<>>

\* filter_chunks, lines 41-42: count, collect the repeated chunks; the set
\* gets the iteration order it will have in clean_chunk.
CountChunks(ord) ==
    /\ cpc = "count"
    /\ ord \in IterationOrders(repeated_chunks(chunks))
    /\ order' = ord
    /\ cpc' = "filter"
    /\ UNCHANGED <<chunks, out, offChunk>>

\* filter_chunks, lines 43-48: the list returned.
FilterChunks ==
    /\ cpc = "filter"
    /\ out' = Comprehension(chunks, order, 1)
    /\ cpc' = "done"
    /\ UNCHANGED <<chunks, order, offChunk>>

NextChunk ==
    \/ \E ord \in IterationOrders(repeated_chunks(chunks)) : CountChunks(ord)
    \/ FilterChunks

SpecChunk == InitChunk /\ [][NextChunk]_vars

\* --------------------------------------------------------- docling_add_doc
\* A document is [body, nodes]: the references of the body's children, in
\* order, and the nodes in the order they were added. A reference names a
\* node by its collection and its position there ("#/texts/0"); the body is
\* BodyRef. A target node also records the source node it copies (from).

\* Most nodes in a source document.
MaxNodes == 3

BodyRef == <<"body", 0>>

\* The node classes _merge_node tells apart; NodeItem stands for a class it
\* does not name and that has no text attribute.
NodeKinds ==
    {"TitleItem", "SectionHeaderItem", "ListItem", "CodeItem", "FormulaItem", "TableItem",
     "PictureItem", "KeyValueItem", "FormItem", "GroupItem", "TextItem", "NodeItem"}

\* The classes of the nodes of the source documents merged here.
SourceKinds == {"TitleItem", "TableItem", "NodeItem"}

\* _merge_node: the isinstance chain, giving the add_* method called.
AddMethod(kind) ==
    CASE kind = "TitleItem" -> "add_title"
      [] kind = "SectionHeaderItem" -> "add_heading"
      [] kind = "ListItem" -> "add_list_item"
      [] kind = "CodeItem" -> "add_code"
      [] kind = "FormulaItem" -> "add_formula"
      [] kind = "TableItem" -> "add_table"
      [] kind = "PictureItem" -> "add_picture"
      [] kind = "KeyValueItem" -> "add_key_values"
      [] kind = "FormItem" -> "add_form"
      [] kind = "GroupItem" -> "add_group"
      [] kind = "TextItem" -> "add_text"
      [] OTHER -> "none"

\* The collection of the document an add_* method appends its node to.
Collection(method) ==
    CASE method \in {"add_title", "add_heading", "add_list_item", "add_code", "add_formula",
                     "add_text"} -> "texts"
      [] method = "add_table" -> "tables"
      [] method = "add_picture" -> "pictures"
      [] method = "add_key_values" -> "key_value_items"
      [] method = "add_form" -> "form_items"
      [] method = "add_group" -> "groups"
      [] OTHER -> "others"

\* The class of the node an add_* method creates.
Created(method) ==
    CASE method = "add_title" -> "TitleItem"
      [] method = "add_heading" -> "SectionHeaderItem"
      [] method = "add_list_item" -> "ListItem"
      [] method = "add_code" -> "CodeItem"
      [] method = "add_formula" -> "FormulaItem"
      [] method = "add_table" -> "TableItem"
      [] method = "add_picture" -> "PictureItem"
      [] method = "add_key_values" -> "KeyValueItem"
      [] method = "add_form" -> "FormItem"
      [] method = "add_group" -> "GroupItem"
      [] OTHER -> "TextItem"

\* The methods given copy.deepcopy of the node's data, annotations or graph.
DeepCopied == {"add_table", "add_picture", "add_key_values", "add_form"}

\* The methods given a caption.
Captioned == {"add_table", "add_picture"}

InDoc(doc, ref) == \E i \in DOMAIN doc.nodes : doc.nodes[i].self_ref = ref

\* ref.resolve(doc)
Resolve(doc, ref) == doc.nodes[CHOOSE i \in DOMAIN doc.nodes : doc.nodes[i].self_ref = ref]

\* The reference the next node of a collection gets.
NextRef(doc, coll) ==
    <<coll, Cardinality({i \in DOMAIN doc.nodes : doc.nodes[i].self_ref[1] = coll})>>

\* get_prov: the first provenance item of the node, if it has any.
get_prov(node) == IF node.prov # <<>> THEN <<node.prov[1]>> ELSE <<>>

\* parent.children with the new node put first.
AttachFirst(children, ref) == <<ref>> \o children

\* parent.children.append(RefItem(cref)) in every add_* method.
Attach(children, ref) == Append(children, ref)

\* target_doc.add_*(..., parent=target_parent): one node is appended to its
\* collection and to the children of the parent. Data, annotations and graph
\* arrive deep-copied (their value is the node's own), the provenance item is
\* the source's own object, and the caption is the source node handed in, of
\* which the new node keeps the reference.
Add(tgt, method, parent, sn, src) ==
    LET ref == NextRef(tgt, Collection(method))
        node == [self_ref |-> ref,
                 kind |-> Created(method),
                 parent |-> parent,
                 children |-> <<>>,
                 captions |-> IF method \in Captioned /\ sn.captions # <<>>
                              THEN <<Resolve(src, sn.captions[1]).self_ref>>
                              ELSE <<>>,
                 data |-> IF method \in DeepCopied THEN <<heap[sn.data]>> ELSE <<>>,
                 prov |-> IF method = "add_group" THEN <<>> ELSE get_prov(sn),
                 from |-> sn.self_ref]
    IN [body |-> IF parent = BodyRef THEN Attach(tgt.body, ref) ELSE tgt.body,
        nodes |-> Append([i \in DOMAIN tgt.nodes |->
                             IF tgt.nodes[i].self_ref = parent
                             THEN [tgt.nodes[i] EXCEPT !.children = Attach(@, ref)]
                             ELSE tgt.nodes[i]],
                         node)]

\* _merge_node and its loop over source_node.children.
RECURSIVE _merge_node(_, _, _, _)
RECURSIVE MergeChildren(_, _, _, _)
_merge_node(tgt, target_parent, source_node, src) ==
    LET method == AddMethod(source_node.kind) IN
    IF method = "none" THEN tgt
    ELSE MergeChildren(Add(tgt, method, target_parent, source_node, src),
                       NextRef(tgt, Collection(method)), source_node.children, src)

MergeChildren(tgt, new_item, child_refs, src) ==
    IF child_refs = <<>> THEN tgt
    ELSE MergeChildren(_merge_node(tgt, new_item, Resolve(src, Head(child_refs)), src),
                       new_item, Tail(child_refs), src)

\* The elements of a set of numbers as a sequence, ascending.
RECURSIVE Ascending(_)
Ascending(S) ==
    IF S = {} THEN <<>>
    ELSE LET m == CHOOSE x \in S : \A y \in S : x <= y IN <<m>> \o Ascending(S \ {m})

Reverse(q) == [i \in DOMAIN q |-> q[Len(q) + 1 - i]]

\* The reference of the i-th node of a source document with these classes.
SourceRef(kinds, i) ==
    <<Collection(AddMethod(kinds[i])),
      Cardinality({j \in 1..(i - 1) : Collection(AddMethod(kinds[j])) = Collection(AddMethod(kinds[i]))})>>

\* The children of node p (0: the body) of a source document, in order.
SourceChildren(kinds, par, rev, p) ==
    LET idx == Ascending({i \in DOMAIN kinds : par[i] = p})
        ord == IF rev THEN Reverse(idx) ELSE idx
    IN [k \in DOMAIN ord |-> SourceRef(kinds, ord[k])]

\* A document as the parser returns it: node i has class kinds[i] and parent
\* par[i], the tables carry the captions caps, and every item has one
\* provenance item if prov.
SourceDocument(kinds, par, rev, caps, prov) ==
    [body |-> SourceChildren(kinds, par, rev, 0),
     nodes |-> [i \in DOMAIN kinds |->
                  [self_ref |-> SourceRef(kinds, i),
                   kind |-> kinds[i],
                   parent |-> IF par[i] = 0 THEN BodyRef ELSE SourceRef(kinds, par[i]),
                   children |-> SourceChildren(kinds, par, rev, i),
                   captions |-> IF kinds[i] = "TableItem"
                                THEN [k \in DOMAIN caps |-> SourceRef(kinds, caps[k])]
                                ELSE <<>>,
                   data |-> <<"data", i>>,
                   prov |-> IF prov THEN << <<"prov", i>> >> ELSE <<>>,
                   from |-> <<>>]]]

\* DoclingDocument(name=...): no nodes.
EmptyDocument == [body |-> <<>>, nodes |-> <<>>]

\* The document of _process_email_multipart after a text/plain part has been
\* merged into it: one text item.
TextDocument ==
    [body |-> << <<"texts", 0>> >>,
     nodes |-> << [self_ref |-> <<"texts", 0>>, kind |-> "TextItem", parent |-> BodyRef,
                   children |-> <<>>, captions |-> <<>>, data |-> <<>>, prov |-> <<>>,
                   from |-> <<>>] >>]

\* What a reader of the target sees: the provenance items are the objects
\* they point to.
View(doc) ==
    [body |-> doc.body,
     nodes |-> [i \in DOMAIN doc.nodes |->
                  [doc.nodes[i] EXCEPT !.prov = [k \in DOMAIN @ |-> heap[@[k]]]]]]

InitMerge ==
    /\ InitPipe /\ HttpOff /\ ChunkOff /\ EmailOff /\ ConvOff
    /\ \E n \in 1..MaxNodes :
         \E kinds \in [1..n -> SourceKinds] :
           \E par \in [1..n -> 0..(n - 1)] :
             \E rev, prov \in BOOLEAN :
               \E caps \in UNION {[1..k -> {i \in 1..n : kinds[i] = "TitleItem"}] : k \in 0..2} :
                 /\ \A i \in 1..n : par[i] < i
                 /\ rev => \E i, j \in 1..n : i # j /\ par[i] = par[j]
                 /\ caps # <<>> => \E i \in 1..n : kinds[i] = "TableItem"
                 /\ source = SourceDocument(kinds, par, rev, caps, prov)
                 /\ heap = [o \in {"data", "prov"} \X (1..n) |-> 0]
    /\ target \in {EmptyDocument, TextDocument}
    /\ todo = source.body
    /\ mpc = "merge"
    /\ merged = <<>>

\* docling_add_doc: one turn of the loop over source.body.children.
MergeTopLevel ==
    /\ mpc = "merge"
    /\ todo # <<>>
    /\ target' = _merge_node(target, BodyRef, Resolve(source, Head(todo)), source)
    /\ todo' = Tail(todo)
    /\ UNCHANGED <<source, heap, mpc, merged, offMerge>>

\* docling_add_doc returns.
MergeReturn ==
    /\ mpc = "merge"
    /\ todo = <<>>
    /\ mpc' = "done"
    /\ merged' = View(target)
    /\ UNCHANGED <<target, source, heap, todo, offMerge>>

\* The caller goes on to change the source document in place: the table
\* data, or the provenance items, of its nodes.
MutateSource(field) ==
    /\ mpc = "done"
    /\ field = "prov" => \E i \in DOMAIN source.nodes : source.nodes[i].prov # <<>>
    /\ heap' = [o \in DOMAIN heap |-> IF o[1] = field THEN 1 ELSE heap[o]]
    /\ mpc' = "mutated"
    /\ UNCHANGED <<target, source, todo, merged, offMerge>>

NextMerge ==
    \/ MergeTopLevel
    \/ MergeReturn
    \/ \E field \in {"data", "prov"} : MutateSource(field)

SpecMerge == InitMerge /\ [][NextMerge]_vars

\* ---------------------------------------------------------- _convert_email
\* A message is [multipart, text, parts]: its immediate sub-parts in order, or
\* for a single-part message whether its content is text. A part is
\* [filename, content_type, payload, is_attachment]; filename and payload are
\* <<>> for None and <<value>> otherwise; a file name is a sequence of
\* one-character strings.

\* Most sub-parts in a message.
MaxParts == 3

BINARY_EXTENSIONS ==
    { <<".", "p", "d", "f">>,
      <<".", "d", "o", "c", "x">>,
      <<".", "x", "l", "s", "x">>,
      <<".", "p", "p", "t", "x">>,
      <<".", "p", "n", "g">>,
      <<".", "j", "p", "g">>,
      <<".", "j", "p", "e", "g">>,
      <<".", "t", "i", "f", "f">>,
      <<".", "t", "i", "f">>,
      <<".", "b", "m", "p">> }

TEXT_EXTENSIONS ==
    { <<".", "m", "d">>,
      <<".", "m", "a", "r", "k", "d", "o", "w", "n">>,
      <<".", "h", "t", "m", "l">>,
      <<".", "h", "t", "m">>,
      <<".", "x", "h", "t", "m", "l">>,
      <<".", "c", "s", "v">>,
      <<".", "t", "x", "t">>,
      <<".", "x", "m", "l">> }

\* os.path.splitext(filename)[1]: from the last dot on, unless that dot is
\* the first character or there is none.
SplitExt(filename) ==
    LET dots == {i \in DOMAIN filename : filename[i] = "."} IN
    IF dots = {} THEN <<>>
    ELSE LET last == CHOOSE i \in dots : \A j \in dots : j <= i IN
         IF \A k \in 1..(last - 1) : filename[k] = "." THEN <<>>
         ELSE SubSeq(filename, last, Len(filename))

\* An extension test that lets every file name through.
AnyAttachment(filename) == TRUE

\* is_supported_attachment; filename is <<>> or <<name>>.
is_supported_attachment(filename) ==
    /\ filename # <<>>
    /\ Lower(SplitExt(filename[1])) \in BINARY_EXTENSIONS \cup TEXT_EXTENSIONS

\* is_supported_mime_type; part.get_content_type() is already lower-cased.
is_supported_mime_type(content_type) == content_type \in SupportedMime

\* hashlib.sha256(content_bytes).hexdigest()
Sha256(b) == IF b = <<7>> THEN "s7" ELSE IF b = <<7, 9>> THEN "s79" ELSE "s1"

\* _convert_email_attachment: <<>> for None, or what _convert is called with.
_convert_email_attachment(part) ==
    IF part.filename = <<>> \/ part.filename[1] = <<>> \/ ~is_supported_attachment(part.filename)
    THEN <<>>
    ELSE IF ~is_supported_mime_type(part.content_type) THEN <<>>
    ELSE IF part.payload = <<>> THEN <<>>
    ELSE << [content_type |-> part.content_type,
             content_hash |-> Sha256(part.payload[1]),
             content |-> part.payload[1],
             filename |-> part.filename[1]] >>

\* The sub-parts messages are made of: the text body, attachments with a
\* supported and an unsupported extension, one with an unsupported type, one
\* without a file name, and a forwarded message (no payload to decode).
MessageParts ==
    { [filename |-> <<>>, content_type |-> "text/plain", payload |-> << <<1>> >>, is_attachment |-> FALSE],
      [filename |-> <<<<"a", ".", "p", "d", "f">>>>, content_type |-> "application/pdf", payload |-> << <<7>> >>, is_attachment |-> TRUE],
      [filename |-> <<<<"b", ".", "P", "D", "F">>>>, content_type |-> "application/pdf", payload |-> << <<7, 9>> >>, is_attachment |-> FALSE],
      [filename |-> <<<<"a", ".", "e", "x", "e">>>>, content_type |-> "application/pdf", payload |-> << <<7>> >>, is_attachment |-> TRUE],
      [filename |-> <<<<"a", ".", "t", "x", "t">>>>, content_type |-> "application/zip", payload |-> << <<7>> >>, is_attachment |-> TRUE],
      [filename |-> <<>>, content_type |-> "application/pdf", payload |-> << <<7>> >>, is_attachment |-> TRUE],
      [filename |-> <<<<"f", "w", "d", ".", "t", "x", "t">>>>, content_type |-> "message/rfc822", payload |-> <<>>, is_attachment |-> TRUE] }

Messages ==
    {[multipart |-> FALSE, text |-> t, parts |-> <<>>] : t \in BOOLEAN}
        \cup {[multipart |-> TRUE, text |-> FALSE, parts |-> ps] :
                ps \in UNION {[1..n -> MessageParts] : n \in 0..MaxParts}}

\* A candidate body part: text/plain, not marked as an attachment.
BodyCandidate(part) == part.content_type = "text/plain" /\ ~part.is_attachment

\* msg.get_body(preferencelist=("html", "plain")) finds a part.
HasBody(m) ==
    IF m.multipart THEN \E i \in DOMAIN m.parts : BodyCandidate(m.parts[i]) ELSE m.text

\* email_message.iter_attachments(): nothing for a single-part message, else
\* the immediate sub-parts but the first candidate body part.
iter_attachments(m) ==
    IF ~m.multipart THEN <<>>
    ELSE LET body == {i \in DOMAIN m.parts : BodyCandidate(m.parts[i])}
             first == IF body = {} THEN 0 ELSE CHOOSE i \in body : \A j \in body : i <= j
             rest == Ascending(DOMAIN m.parts \ {first})
         IN [k \in DOMAIN rest |-> m.parts[rest[k]]]

InitEmail ==
    /\ InitPipe /\ HttpOff /\ ChunkOff /\ MergeOff /\ ConvOff
    /\ msg \in Messages
    /\ epc = "body"
    /\ eidx = 0
    /\ atts = <<>>

\* _convert_email_body, then result.attachments = []. A single-part message
\* that is not text has bytes for content and .encode fails; a multipart one
\* without a body part has no content to get; the parser may fail.
ConvertEmailBody(outcome) ==
    /\ epc = "body"
    /\ ~HasBody(msg) => outcome = "raise"
    /\ epc' = IF outcome = "ok" THEN "attachments" ELSE "raised"
    /\ atts' = <<>>
    /\ UNCHANGED <<msg, eidx, offEmail>>

\* One turn of the loop over iter_attachments(); the parser may fail on a
\* part that is converted.
ConvertEmailAttachment(outcome) ==
    /\ epc = "attachments"
    /\ eidx < Len(iter_attachments(msg))
    /\ LET att == _convert_email_attachment(iter_attachments(msg)[eidx + 1]) IN
       /\ att = <<>> => outcome = "ok"
       /\ IF outcome = "raise"
          THEN epc' = "raised" /\ UNCHANGED atts
          ELSE /\ atts' = IF att = <<>> THEN atts ELSE Append(atts, att[1])
               /\ UNCHANGED epc
    /\ eidx' = eidx + 1
    /\ UNCHANGED <<msg, offEmail>>

\* _convert_email returns the result.
ConvertEmailReturn ==
    /\ epc = "attachments"
    /\ eidx = Len(iter_attachments(msg))
    /\ epc' = "done"
    /\ UNCHANGED <<msg, eidx, atts, offEmail>>

NextEmail ==
    \/ \E outcome \in ParseOutcomes : ConvertEmailBody(outcome)
    \/ \E outcome \in ParseOutcomes : ConvertEmailAttachment(outcome)
    \/ ConvertEmailReturn

SpecEmail == InitEmail /\ [][NextEmail]_vars

\* ---------------------------------------------- DoclingConverter.convert
\* The caching converter works on the same container as the pipeline.

\* What convert is called with: a content type and the content.
ConvertInputs == {"application/pdf", "APPLICATION/PDF", "application/zip"} \X ByteInputs

\* The DoclingConversionResult _convert builds.
ConversionResult(content_type, content) ==
    <<"DoclingConversionResult", Sha256(content), content_type>>

\* DoclingConversionResult.model_validate_json succeeds.
ValidatesAsResult(data) == Len(data) > 0 /\ data[1] = "DoclingConversionResult"

Returned(result) == [outcome |-> "returned", error |-> "", result |-> result]
Raised(text) == [outcome |-> "raised", error |-> text, result |-> <<>>]

\* convert, line 191: content_hash = blake3(content).hexdigest()
ConvertKey(b) == Blake3(b)

\* convert is called.
ConvertStart(ct, b) ==
    /\ cvpc = "idle"
    /\ \A c \in Callers : ~Active(c)
    /\ calls < MaxCalls
    /\ calls' = calls + 1
    /\ cvarg' = <<[content_type |-> ct, content |-> b, content_hash |-> ConvertKey(b)]>>
    /\ cvres' = <<>>
    /\ cvpc' = "get_cached"
    /\ UNCHANGED <<store, pc, arg, model, gow, attempt, docling, work, tampers, lastRet, snap,
                   before, httpVars, chunkVars, mergeVars, emailVars>>

\* get_cached: None when there is no blob; a blob that does not validate or
\* whose content_hash differs raises; a blob that passes gives None as well.
GetCached ==
    /\ cvpc = "get_cached"
    /\ LET blob_bytes == GetBytes(store, <<cvarg[1].content_hash, "docling.json">>) IN
       IF blob_bytes = <<>>
       THEN cvpc' = "check_type" /\ UNCHANGED cvres
       ELSE IF ~ValidatesAsResult(blob_bytes)
       THEN cvpc' = "idle" /\ cvres' = <<Raised("ValidationError")>>
       ELSE IF blob_bytes[2] # cvarg[1].content_hash
       THEN cvpc' = "idle" /\ cvres' = <<Raised("Content hash mismatch")>>
       ELSE cvpc' = "check_type" /\ UNCHANGED cvres
    /\ UNCHANGED <<cvarg, pipeVars, httpVars, chunkVars, mergeVars, emailVars>>

\* convert, lines 199-201.
CheckContentType ==
    /\ cvpc = "check_type"
    /\ IF LowerMime(cvarg[1].content_type) \notin SupportedMime
       THEN cvpc' = "idle" /\ cvres' = <<Raised("Unsupported MIME type")>>
       ELSE cvpc' = "convert" /\ UNCHANGED cvres
    /\ UNCHANGED <<cvarg, pipeVars, httpVars, chunkVars, mergeVars, emailVars>>

\* convert, lines 205-212: the conversion; the parser may raise.
RunConversion(outcome) ==
    /\ cvpc = "convert"
    /\ IF outcome = "raise"
       THEN cvpc' = "idle" /\ cvres' = <<Raised("parser")>>
       ELSE /\ cvpc' = "store"
            /\ cvres' = <<Returned(ConversionResult(LowerMime(cvarg[1].content_type),
                                                     cvarg[1].content))>>
    /\ UNCHANGED <<cvarg, pipeVars, httpVars, chunkVars, mergeVars, emailVars>>

\* convert, lines 215-217: the result is stored and returned.
StoreConversion ==
    /\ cvpc = "store"
    /\ store' = SetBytes(store, <<cvarg[1].content_hash, "docling.json">>, cvres[1].result, Now)
    /\ cvpc' = "idle"
    /\ UNCHANGED <<cvarg, cvres, pc, arg, model, gow, attempt, docling, work, calls, tampers,
                   lastRet, snap, before, httpVars, chunkVars, mergeVars, emailVars>>

NextConvert ==
    \/ \E i \in ConvertInputs : ConvertStart(i[1], i[2])
    \/ GetCached
    \/ CheckContentType
    \/ \E outcome \in ParseOutcomes : RunConversion(outcome)
    \/ StoreConversion

SpecConvert == Init /\ [][NextConvert]_vars

\* ------------------------------------------------- claims on the pipeline
Index(h) == GetStatus(store, h)
Derivations == {"parse", "export", "store_original", "store_docling",
                "store_markdown", "save_status", "retry"}

\* A call on which the idempotence claim speaks: it has returned, it ran
\* without overwrite, it repeats (same bytes, same content type) a call that
\* had completed before it started, and nothing else touched the hash since.
Repeats(c) == pc[c] = "done" /\ ~arg[c].overwrite /\ snap[c] # <<>>

\* C1: a second process call with the same bytes and overwrite=false, made
\* after a first call has completed, performs no derivation and no store
\* write, leaves the persisted record as it was, and returns a record equal
\* to the one the first call returned.
C1_IdempotentStaging ==
    \A c \in Callers :
        Repeats(c) =>
            /\ work[c] \cap Derivations = {}
            /\ Index(HashOf(c)) = before[c]
            /\ model[c][1] = snap[c][1]

C1_Witness == \E c \in Callers : Repeats(c) /\ snap[c][1].markdown_date # 0

\* The record and artifacts a single uninterrupted call leaves under hash h.
StagedLikeOneCall(h, ct) ==
    /\ Index(h) # <<>>
    /\ Index(h)[1].markdown_date # 0
    /\ BlobExists(store, <<h, "original" \o OriginalExt(ct)>>)
    /\ Validates(GetBytes(store, <<h, "docling.json">>))
    /\ BlobExists(store, <<h, "original.md">>)

\* C2: once two concurrent process calls on the same bytes (overwrite=false)
\* have both returned, the persisted record and artifacts are those a single
\* sequential call leaves, up to timestamp values: no marker is lost.
C2_ConcurrentSameHashSafe ==
    (/\ pc[1] = "done" /\ pc[2] = "done"
     /\ arg[1] = arg[2] /\ ~arg[1].overwrite)
        => StagedLikeOneCall(HashOf(1), arg[1].content_type)

\* C3: whatever earlier calls were interrupted, an uninterrupted process call
\* with overwrite=false ends with the artifacts persisted and the marker of
\* the completed markdown stage set in the persisted record.
C3_Resumable ==
    \A c \in Callers :
        (pc[c] = "done" /\ ~arg[c].overwrite /\ tampers = 0)
            => StagedLikeOneCall(HashOf(c), model[c][1].content_type)

\* A stage timestamp of the persisted record was stamped anew by the call.
Restamped(c, stamp) == stamp # 0 /\ stamp >= calls

\* C4: a process call with overwrite=true re-derives the structured
\* document, the markdown and the chunks, and updates every stage timestamp
\* of the persisted record.
C4_OverwriteRecomputes ==
    \A c \in Callers :
        (pc[c] = "done" /\ arg[c].overwrite /\ tampers = 0) =>
            /\ {"parse", "store_docling", "export", "store_markdown"} \subseteq work[c]
            /\ Index(HashOf(c)) # <<>>
            /\ Restamped(c, Index(HashOf(c))[1].docling_date)
            /\ Restamped(c, Index(HashOf(c))[1].markdown_date)
            /\ Restamped(c, Index(HashOf(c))[1].chunk_date)

AllMarkersSet(m) == m.docling_date # 0 /\ m.markdown_date # 0 /\ m.chunk_date # 0

\* C5: when process returns, the returned and the persisted record have
\* document, markdown and chunk markers all set.
C5_MarkersOnCompletion ==
    \A c \in Callers :
        (pc[c] = "done" /\ tampers = 0) =>
            /\ AllMarkersSet(model[c][1])
            /\ Index(HashOf(c)) # <<>>
            /\ AllMarkersSet(Index(HashOf(c))[1])

InGetDocling(c) == pc[c] \in {"doc_date", "doc_derive", "doc_get"}

\* C6: get_docling retries a failed cache read at most once, the retry
\* forces a fresh derivation and never reads the cache again, the call never
\* gets stuck, and a failure on the retry is raised to the caller.
C6_BoundedRetry ==
    \A c \in Callers :
        /\ attempt[c] \in {0, 1}
        /\ ("retry" \in work[c]) <=> (attempt[c] = 1)
        /\ attempt[c] = 1 => (gow[c] /\ pc[c] # "doc_get")
        /\ (attempt[c] = 1 /\ pc[c] \notin {"idle", "doc_date", "doc_derive"})
               => "parse" \in work[c]
        /\ (attempt[c] = 1 /\ pc[c] \notin {"idle", "doc_date", "doc_derive", "error"})
               => "store_docling" \in work[c]
        /\ InGetDocling(c) => ENABLED Step(c)

C6_Witness == \E c \in Callers : attempt[c] = 1 /\ pc[c] = "done" /\ ~arg[c].overwrite

\* C7: process called with a content type that is no key of the
\* supported-MIME table fails before any stage runs and writes nothing.
C7_UnsupportedMimeRejected ==
    \A c \in Callers :
        (Active(c) /\ arg[c].content_type \notin SupportedMime) =>
            /\ work[c] \cap Derivations = {}
            /\ pc[c] # "done"

\* ------------------------------------------------- claims on the chunk filter

\* The positions of the chunks that occur once and pass is_good_chunk.
Survivors == {i \in DOMAIN chunks : chunk_counts(chunks, chunks[i]) = 1 /\ IsGoodChunk(chunks[i])}

\* C9: Chunk filter duplicate removal and order. When filter_chunks has
\* returned, the output has one entry for each input chunk that occurs exactly
\* once and passes the goodness predicate, none for a chunk that occurs more
\* than once, and the entries stand in the order of the input chunks they come
\* from: the k-th surviving input chunk gives the k-th output. In particular
\* [A, B, A, C] gives [B, C].
C9_DuplicateRemovalAndOrder ==
    cpc = "done" =>
        /\ Len(out) = Cardinality(Survivors)
        /\ Len(out) <= Cardinality({i \in DOMAIN chunks : chunk_counts(chunks, chunks[i]) = 1})
        /\ \A i \in Survivors :
             out[Cardinality({k \in Survivors : k <= i})] = clean_chunk(chunks[i], order)
        /\ chunks = << <<"A">>, <<"B">>, <<"A">>, <<"C">> >> => out = << <<"B">>, <<"C">> >>

\* [A, B, A, C] has been filtered: A is gone, B and C are left in that order.
C9_Witness ==
    /\ cpc = "done"
    /\ chunks = << <<"A">>, <<"B">>, <<"A">>, <<"C">> >>
    /\ order = << <<"A">> >>
    /\ out = << <<"B">>, <<"C">> >>

\* C10: Chunk stripping completeness. When filter_chunks has returned, no
\* chunk of the output contains a repeated chunk of the input as a substring.
C10_StrippingComplete ==
    cpc = "done" =>
        \A j \in DOMAIN out : \A rc \in repeated_chunks(chunks) : ~Contains(out[j], rc)

\* C11: Goodness predicate after stripping. When filter_chunks has returned,
\* a chunk that occurs exactly once is in the output (as its stripped text) if
\* and only if the stripped text passes the goodness predicate.
C11_GoodnessAfterStripping ==
    cpc = "done" =>
        \A i \in DOMAIN chunks :
            chunk_counts(chunks, chunks[i]) = 1 =>
                LET stripped == clean_chunk(chunks[i], order) IN
                IsGoodChunk(stripped) <=> \E j \in DOMAIN out : out[j] = stripped

\* C20: Chunk filter determinism. The list filter_chunks returns is the one
\* it would return under every other iteration order of the set of repeated
\* chunks.
C20_FilterDeterministic ==
    cpc = "done" =>
        \A ord \in IterationOrders(repeated_chunks(chunks)) :
            out = Comprehension(chunks, ord, 1)

\* ---------------------------------------------- claims on docling_add_doc

\* The target nodes the merge created.
NewNodes == {i \in DOMAIN target.nodes : target.nodes[i].from # <<>>}

\* A source node _merge_node creates nothing for.
Skipped(sn) == sn.kind = "NodeItem"

\* A source node that is neither skipped nor below a skipped node.
RECURSIVE Kept(_)
Kept(sn) == ~Skipped(sn) /\ (sn.parent = BodyRef \/ Kept(Resolve(source, sn.parent)))

KeptRefs == {source.nodes[i].self_ref : i \in {j \in DOMAIN source.nodes : Kept(source.nodes[j])}}

\* The target node made for a source node.
CopyOf(ref) == target.nodes[CHOOSE i \in NewNodes : target.nodes[i].from = ref]

\* The copies of the kept nodes among refs, in the order of refs.
Copies(refs) ==
    LET kept == SelectSeq(refs, LAMBDA r : r \in KeptRefs)
    IN [k \in DOMAIN kept |-> CopyOf(kept[k]).self_ref]

\* C12: Merge structural fidelity. When docling_add_doc has returned, the
\* target holds exactly one new node for every source node that is neither
\* skipped nor below a skipped node and none for any other; the copy of a node
\* hangs under the copy of its parent (under the body for a top-level node);
\* and the children of every copy, and the new children of the body, are the
\* copies of the source children in the source's order.
C12_MergeStructuralFidelity ==
    mpc = "done" =>
        /\ \A r \in KeptRefs : Cardinality({i \in NewNodes : target.nodes[i].from = r}) = 1
        /\ \A i \in NewNodes : target.nodes[i].from \in KeptRefs
        /\ \A r \in KeptRefs :
             LET sn == Resolve(source, r)
                 copy == CopyOf(r)
             IN /\ copy.parent = IF sn.parent = BodyRef THEN BodyRef
                                 ELSE CopyOf(sn.parent).self_ref
                /\ copy.children = Copies(sn.children)
        /\ target.body =
             SelectSeq(target.body, LAMBDA r : Resolve(target, r).from = <<>>)
                \o Copies(source.body)

\* A source of three nodes, a title over an unnamed node over a title, has
\* been merged into a target that had a text item: one node was created.
C12_Witness ==
    /\ mpc = "done"
    /\ Len(source.nodes) = 3
    /\ Len(source.body) = 1
    /\ \E i \in DOMAIN source.nodes :
         /\ Skipped(source.nodes[i])
         /\ source.nodes[i].parent # BodyRef
         /\ source.nodes[i].children # <<>>
    /\ Len(target.nodes) = 2
    /\ Cardinality(NewNodes) = 1

\* The nodes (or the body) of the target that list ref among their children.
ParentsOf(ref) ==
    {i \in DOMAIN target.nodes : \E k \in DOMAIN target.nodes[i].children :
                                    target.nodes[i].children[k] = ref}
        \cup (IF \E k \in DOMAIN target.body : target.body[k] = ref THEN {0} ELSE {})

\* The body is reached from the node by following parent at most n times.
RECURSIVE Rooted(_, _)
Rooted(ref, n) ==
    \/ ref = BodyRef
    \/ n > 0 /\ InDoc(target, ref) /\ Rooted(Resolve(target, ref).parent, n - 1)

\* The target is a tree: every node is listed once, by its parent, and the
\* parent chain of every node ends at the body.
TargetIsTree ==
    \A i \in DOMAIN target.nodes :
        LET node == target.nodes[i] IN
        /\ Cardinality(ParentsOf(node.self_ref)) = 1
        /\ node.parent = BodyRef => ParentsOf(node.self_ref) = {0}
        /\ node.parent # BodyRef =>
             \E j \in ParentsOf(node.self_ref) : j # 0 /\ target.nodes[j].self_ref = node.parent
        /\ Rooted(node.self_ref, Len(target.nodes))

\* Every reference a target node holds names a node of the target; a caption
\* names the target's copy of the source caption.
TargetRefsResolve ==
    \A i \in DOMAIN target.nodes :
        LET node == target.nodes[i] IN
        /\ node.parent = BodyRef \/ InDoc(target, node.parent)
        /\ \A k \in DOMAIN node.children : InDoc(target, node.children[k])
        /\ \A k \in DOMAIN node.captions :
             /\ InDoc(target, node.captions[k])
             /\ Resolve(target, node.captions[k]).from = Resolve(source, node.from).captions[k]

\* A copy has the first caption of its source node and no other.
FirstCaptionOnly ==
    \A i \in NewNodes :
        Len(target.nodes[i].captions) =
            (IF Resolve(source, target.nodes[i].from).captions = <<>> THEN 0 ELSE 1)

\* C17: Merge keeps the target a well-formed, unaliased tree. Once
\* docling_add_doc has returned the target is a tree, every reference its
\* nodes hold resolves inside the target (a caption to the target's copy of
\* the caption), a copy carries only the first caption, and after a change
\* made to the source the target reads as it did when the merge returned.
C17_MergeWellFormedUnaliased ==
    mpc \in {"done", "mutated"} =>
        /\ TargetIsTree
        /\ TargetRefsResolve
        /\ FirstCaptionOnly
        /\ View(target) = merged

\* ------------------------------------------------ claims on _convert_email

\* A part the decomposition is to emit: it has a file name with a supported
\* extension, a supported MIME type and a payload that decodes to bytes.
Emittable(part) ==
    /\ part.filename # <<>>
    /\ Lower(SplitExt(part.filename[1])) \in BINARY_EXTENSIONS \cup TEXT_EXTENSIONS
    /\ part.content_type \in DOMAIN SUPPORTED_MIME_TYPES
    /\ part.payload # <<>>

C14_AttachmentRecords ==
    \A c \in Callers :
        pc[c] = "done" /\ arg[c].content_type = "message/rfc822" =>
            LET parts == MailParts(arg[c].bytes) IN
            /\ model[c][1].attachment_hashes = [k \in DOMAIN parts |-> Blake3(parts[k])]
            /\ \A k \in DOMAIN parts : GetStatus(store, Blake3(parts[k])) # <<>>

\* ------------------------------------------- claims on different hashes

\* What caller c holds of its call.
Locals(c) ==
    <<pc[c], arg[c], model[c], gow[c], attempt[c], docling[c], work[c], snap[c], before[c]>>

\* No other call has worked under the hash of caller c's call: every other
\* caller is in a call on another hash, has completed one, or has made none.
OnlyCallOnItsHash(c) ==
    \A d \in Callers \ {c} :
        IF Active(d) THEN HashOf(d) # HashOf(c)
        ELSE calls = 1 \/ \E k \in Keys : k[1] # HashOf(c) /\ store[k] # NoBlob

\* What a call that runs alone on an empty store leaves when it returns:
\* every stage derived and stored once, the record persisted as returned.
LikeALoneCall(c) ==
    /\ work[c] = {"store_original", "save_status", "parse", "store_docling", "export",
                  "store_markdown"}
    /\ Index(HashOf(c)) = model[c]
    /\ model[c][1].created_at # 0
    /\ model[c][1].markdown_date >= model[c][1].created_at
    /\ GetBytes(store, OriginalKey(c)) = arg[c].bytes
    /\ GetBytes(store, DoclingKey(c)) = Parse(arg[c].bytes, arg[c].content_type)
    /\ GetBytes(store, MarkdownKey(c)) = ExportToMarkdown(docling[c])

\* A step of caller c touches no key of another hash and nothing another
\* caller holds of a call on another hash.
StaysUnderItsHash ==
    \A c \in Callers :
        pc'[c] # pc[c] =>
            LET h == IF Active(c) THEN HashOf(c) ELSE Blake3(arg'[c].bytes) IN
            /\ \A k \in Keys : k[1] # h => store'[k] = store[k]
            /\ \A d \in Callers \ {c} :
                 (Active(d) /\ HashOf(d) # h) => Locals(d)' = Locals(d)

\* C15: Independence of different hashes. Every step of a process call
\* reads and writes only keys under the hash of its bytes and leaves a
\* concurrent call on another hash as it was; and a call that has returned
\* while only calls on other hashes ran beside it leaves its record and
\* artifacts as a call running alone does.
C15_IndependentHashes ==
    /\ [][StaysUnderItsHash]_vars
    /\ [](\A c \in Callers : (pc[c] = "done" /\ OnlyCallOnItsHash(c)) => LikeALoneCall(c))

\* Two calls on different hashes ran interleaved: one has returned to
\* completion after the other began, which is past its first store write.
C15_Witness ==
    /\ pc[1] = "done"
    /\ Running(2)
    /\ HashOf(1) # HashOf(2)
    /\ work[2] # {}
    /\ model[1][1].created_at < calls

\* --------------------------------------------- claims on markers and blobs

\* In the store, a record with markdown_date has its original.md, and an
\* original.md has its docling.json.
MarkerHasArtifact ==
    \A h \in Hashes :
        /\ (Index(h) # <<>> /\ Index(h)[1].markdown_date # 0)
               => BlobExists(store, <<h, "original.md">>)
        /\ BlobExists(store, <<h, "original.md">>) => BlobExists(store, <<h, "docling.json">>)

\* A write of original.md finds the docling.json of its hash stored.
MarkdownAfterDocling ==
    \A h \in Hashes :
        store'[<<h, "original.md">>] # store[<<h, "original.md">>]
            => BlobExists(store, <<h, "docling.json">>)

\* C19: Marker implies artifact, stages in order. Under every interleaving
\* of process calls, with nothing deleted from outside, a persisted record
\* with markdown_date set has its original.md, an original.md has its
\* docling.json, and original.md is only written once docling.json is stored.
C19_MarkerImpliesArtifact ==
    /\ [](tampers = 0 => MarkerHasArtifact)
    /\ [][tampers' = 0 => MarkdownAfterDocling]_vars

\* One call has completed all its stages while a call on the same bytes,
\* begun before the first one wrote anything, is still running.
C19_Witness ==
    /\ pc[1] = "done"
    /\ Running(2)
    /\ HashOf(1) = HashOf(2)
    /\ before[2] = <<>>
    /\ Index(HashOf(1)) # <<>>
    /\ Index(HashOf(1))[1].markdown_date # 0
    /\ BlobExists(store, MarkdownKey(1))

\* ------------------------------------------------------ claims on convert

\* C16: Cache lookup in the caching converter. A convert call with a
\* supported content type never ends in get_cached: whatever is stored under
\* the hash of its bytes, it goes on to convert afresh, and unless the parser
\* fails it stores and returns the new result.
C16_AlwaysConvertsAfresh ==
    (/\ cvpc = "idle"
     /\ cvres # <<>>
     /\ LowerMime(cvarg[1].content_type) \in SupportedMime)
        => \/ cvres[1].error = "parser"
           \/ /\ cvres[1].outcome = "returned"
              /\ GetBytes(store, <<cvarg[1].content_hash, "docling.json">>) = cvres[1].result

\* C18: Cached conversion key consistency. Every DoclingConversionResult
\* stored under {h}/docling.json has content_hash h.
C18_StoredUnderItsHash ==
    \A h \in Hashes :
        LET blob_bytes == GetBytes(store, <<h, "docling.json">>) IN
        ValidatesAsResult(blob_bytes) => blob_bytes[2] = h

====
